---------------------------- MODULE Spec2Model ----------------------------
(***************************************************************************)
(* A model of the IRLS MAP super-resolution solver:                        *)
(*   - IrlsMapSolver::Solve and the two ALGLIB callbacks                   *)
(*     (objective-and-gradient, iteration report);                         *)
(*   - the data-fidelity and regularization terms with their analytical    *)
(*     gradients;                                                          *)
(*   - the ObjectiveFunction aggregator and its iteration counter.         *)
(*                                                                         *)
(* Pixel values, costs, gradients and weights are exact rationals          *)
(* <<numerator, denominator>>.  The pixel values and the epsilon of the    *)
(* weight update are chosen so that every weight the model can reach is    *)
(* the square of a rational, which makes sqrt() exact.                     *)
(***************************************************************************)
EXTENDS Integers, Sequences, FiniteSets, TLC

(***************************************************************************)
(* Bounds of the model.                                                    *)
(***************************************************************************)
\* callbacks (evaluations + iteration reports) the Minimizer makes per solve
MaxCallbacks == 3
\* Solve() calls on one solver
MaxSolves == 2
\* ReportIterationComplete() calls on one ObjectiveFunction
MaxReportCalls == 3
\* AddTerm() calls on one ObjectiveFunction
MaxTerms == 3

(***************************************************************************)
(* double arithmetic, exact on rationals.                                  *)
(***************************************************************************)
RECURSIVE Gcd(_, _)
Gcd(a, b) == IF b = 0 THEN a ELSE Gcd(b, a % b)

IAbs(n) == IF n < 0 THEN -n ELSE n

Rat(n, d) ==
    LET g == Gcd(IAbs(n), IAbs(d))
        s == IF d < 0 THEN -1 ELSE 1
    IN  <<(s * n) \div g, (s * d) \div g>>

Int2R(n) == <<n, 1>>
Zero == Int2R(0)
One == Int2R(1)
Two == Int2R(2)

RAdd(a, b) == Rat(a[1] * b[2] + b[1] * a[2], a[2] * b[2])
RSub(a, b) == Rat(a[1] * b[2] - b[1] * a[2], a[2] * b[2])
RMul(a, b) == Rat(a[1] * b[1], a[2] * b[2])
RInv(a) == Rat(a[2], a[1])
RAbs(a) == <<IAbs(a[1]), a[2]>>
RLeq(a, b) == a[1] * b[2] <= b[1] * a[2]
RLess(a, b) == a[1] * b[2] < b[1] * a[2]
RMax(a, b) == IF RLess(a, b) THEN b ELSE a
RSquare(a) == RMul(a, a)

\* the largest k with k * k <= n
ISqrt(n) == CHOOSE k \in 0..n : k * k <= n /\ (k + 1) * (k + 1) > n
\* sqrt(): exact when numerator and denominator are perfect squares
RSqrt(a) == Rat(ISqrt(a[1]), ISqrt(a[2]))
IsSquare(a) == RSquare(RSqrt(a)) = a

(***************************************************************************)
(* The configuration of the solver: image size, image model, observations  *)
(* and regularizers.                                                       *)
(***************************************************************************)
\* image_size_: the high-resolution image is width x height, row-major
image_size_ == [width |-> 2, height |-> 2]
Width == image_size_.width
Height == image_size_.height
\* image_model_: an identity blur kernel followed by downsampling by scale
image_model_ == [kernel |-> "identity", scale |-> 2]
\* image_model_.GetDownsamplingScale()
GetDownsamplingScale == image_model_.scale
LrWidth == Width \div GetDownsamplingScale
LrHeight == Height \div GetDownsamplingScale

GetNumPixels == Width * Height
Pixels == 1..GetNumPixels
LrPixels == 1..(LrWidth * LrHeight)

\* a null estimate pointer: no data behind it
NULL == <<>>
\* no value: nothing was returned, or the buffer does not exist
NONE == <<>>

\* the low-resolution observations the solver was built with
LrObservations == << [p \in LrPixels |-> Int2R(0)], [p \in LrPixels |-> Int2R(9)] >>
GetNumImages == Len(LrObservations)

Row(p) == (p - 1) \div Width
Col(p) == (p - 1) % Width
LrRow(q) == (q - 1) \div LrWidth
LrCol(q) == (q - 1) % LrWidth
\* the low-resolution pixel that high-resolution pixel p maps into
LrOf(p) == (Row(p) \div GetDownsamplingScale) * LrWidth + (Col(p) \div GetDownsamplingScale) + 1
\* the high-resolution pixel a low-resolution pixel is sampled from
HrOf(q) == (LrRow(q) * GetDownsamplingScale) * Width + (LrCol(q) * GetDownsamplingScale) + 1

\* the vector f[1], .., f[n], each entry computed once
RECURSIVE Vector(_, _)
Vector(f, n) == IF n = 0 THEN <<>> ELSE Append(Vector(f, n - 1), f[n])
HrVector(f) == Vector(f, GetNumPixels)
LrVector(f) == Vector(f, LrWidth * LrHeight)

ZeroVector == HrVector([p \in Pixels |-> Zero])

\* the sum of f[1] .. f[n]
RECURSIVE SumTo(_, _)
SumTo(f, n) == IF n = 0 THEN Zero ELSE RAdd(SumTo(f, n - 1), f[n])

(***************************************************************************)
(* The image model and the image buffer (collaborators of the solver).     *)
(***************************************************************************)
\* ImageModel::ApplyToImage: blur with the frame's kernel (identity), then
\* keep every scale-th pixel
ApplyToImage(image, image_index) == LrVector([q \in LrPixels |-> image[HrOf(q)]])

\* ImageModel::ApplyTransposeToImage: the adjoint, a zero-insertion upsample
ApplyTransposeToImage(lr_image, image_index) ==
    HrVector([p \in Pixels |-> IF HrOf(LrOf(p)) = p THEN lr_image[LrOf(p)] ELSE Zero])

\* ImageData::ResizeImage(image_size_, cv::INTER_NEAREST) of a low-resolution
\* image: every pixel is replicated scale x scale times
ResizeImageNearest(lr_image) == HrVector([p \in Pixels |-> lr_image[LrOf(p)]])

\* ImageData::ResizeImage(size / scale) with the default (linear)
\* interpolation: each low-resolution pixel is the mean of its block
ResizeImageDown(image) ==
    LrVector([q \in LrPixels |->
        RMul(SumTo([p \in Pixels |-> IF LrOf(p) = q THEN image[p] ELSE Zero],
                   GetNumPixels),
             Rat(1, GetDownsamplingScale * GetDownsamplingScale))])

\* observations_: the observations as the solver holds them, one value per
\* high-resolution pixel index (the data term reads indices 0..num_pixels-1)
observations_ ==
    Vector([i \in 1..GetNumImages |-> ResizeImageNearest(LrObservations[i])], GetNumImages)

\* ImageData::GetPixelValue(channel, index) of a one-channel image
GetPixelValue(image, index) == image[index]

(***************************************************************************)
(* Regularizers (collaborators): a difference with the right-hand or the   *)
(* lower neighbour.                                                        *)
(***************************************************************************)
HorizontalDifference == "horizontal"
VerticalDifference == "vertical"

\* the neighbour the stencil of pixel p reads, 0 when it is outside the image
Neighbour(regularizer, p) ==
    IF regularizer = HorizontalDifference
    THEN IF Col(p) + 1 < Width THEN p + 1 ELSE 0
    ELSE IF Row(p) + 1 < Height THEN p + Width ELSE 0

\* Regularizer::ApplyToImage: one residual per pixel
RegularizerApplyToImage(regularizer, image) ==
    HrVector([p \in Pixels |->
        IF Neighbour(regularizer, p) = 0 THEN Zero
        ELSE RSub(image[Neighbour(regularizer, p)], image[p])])

\* Regularizer::GetDerivatives: d/dx_q of sum_p coefficient_p * residual_p
RegularizerGetDerivatives(regularizer, image, partial_const_terms) ==
    HrVector([q \in Pixels |->
        RSub(SumTo([p \in Pixels |-> IF Neighbour(regularizer, p) = q
                                      THEN partial_const_terms[p] ELSE Zero],
                   GetNumPixels),
             IF Neighbour(regularizer, q) = 0 THEN Zero ELSE partial_const_terms[q])])

\* the regularizer lists a solver can be configured with: <<regularizer,
\* regularization parameter>> pairs
RegularizerConfigs ==
    { << [first |-> HorizontalDifference, second |-> One] >>,
      << [first |-> HorizontalDifference, second |-> One],
         [first |-> VerticalDifference, second |-> Two] >> }

(***************************************************************************)
(* State.                                                                  *)
(***************************************************************************)
VARIABLES
    build,              \* which of the two callback files the binary links
    regularizers_,      \* IrlsMapSolver::regularizers_
    irls_weights_,      \* IrlsMapSolver::irls_weights_
    pc,                 \* "idle", "optimizing" (inside mincgoptimize), "aborted"
    solver_data,        \* the estimate the Minimizer handed to the last callback
    residual_sum,       \* the Minimizer's cost buffer
    gradient,           \* the Minimizer's gradient buffer
    op,                 \* the last operation that acted
    callbacks,          \* callbacks made in the current solve
    reported,           \* an iteration report was made in the current solve
    num_solves,         \* Solve() calls so far
    weights_at_entry,   \* irls_weights_ as the current Solve() found it
    tracked,            \* an earlier evaluation under the weights in force
    ret,                \* the outcome of the last direct call of a term
    terms_,             \* ObjectiveFunction::terms_
    num_iterations_completed_,  \* ObjectiveFunction::num_iterations_completed_
    report_calls,       \* ReportIterationComplete() calls made so far
    last_cost           \* what the last ComputeAllTerms() returned

solver_vars == <<build, regularizers_, irls_weights_, pc, solver_data, residual_sum,
                 gradient, op, callbacks, reported, num_solves, weights_at_entry,
                 tracked, ret>>
objective_vars == <<terms_, num_iterations_completed_, report_calls, last_cost>>
vars == <<solver_vars, objective_vars>>

(***************************************************************************)
(* The data term (irls_map_solver.cpp, ComputeDataTermAnalyticalDiff).     *)
(* image_index is 1-based in the model.  The result records, next to the   *)
(* returned pair <<first, second>>, how the call ended, how many           *)
(* collaborator calls it made and the weight table it leaves.              *)
(***************************************************************************)
\* CHECK_NOTNULL(estimated_image_data) failing: the process ends
CheckFailed(weights) ==
    [outcome |-> "check_failed", first |-> NONE, second |-> NONE,
     coeffs |-> <<>>, collab |-> 0, irls_weights |-> weights]

DataTermBody(image_index, channel_index, estimated_image_data, weights) ==
    LET \* degrade (and re-upsample) the HR estimate with the image model
        degraded_hr_image ==
            ResizeImageNearest(ApplyToImage(estimated_image_data, image_index))
        residuals ==
            HrVector([i \in Pixels |->
                RSub(GetPixelValue(degraded_hr_image, i),
                     GetPixelValue(observations_[image_index], i))])
        sum == SumTo([i \in Pixels |-> RSquare(residuals[i])], GetNumPixels)
        \* the transpose operations on the residual image
        residual_image ==
            ApplyTransposeToImage(ResizeImageDown(residuals), image_index)
    IN  [outcome |-> "returned",
         first |-> sum,
         second |-> HrVector([pixel_index \in Pixels |->
                        RMul(Two, GetPixelValue(residual_image, pixel_index))]),
         coeffs |-> <<>>, collab |-> 2, irls_weights |-> weights]

\* the mutant of the data term: the null check comes after the degradation
ComputeDataTermCheckAfterApply(image_index, channel_index, estimated_image_data, weights) ==
    IF estimated_image_data = NULL THEN [CheckFailed(weights) EXCEPT !.collab = 1]
    ELSE DataTermBody(image_index, channel_index, estimated_image_data, weights)

ComputeDataTermAnalyticalDiff(image_index, channel_index, estimated_image_data, weights) ==
    IF estimated_image_data = NULL THEN CheckFailed(weights)
    ELSE DataTermBody(image_index, channel_index, estimated_image_data, weights)

(***************************************************************************)
(* The regularization term (ComputeRegularizationAnalyticalDiff).  The     *)
(* regularizer index i and the pixel index are 1-based in the model.  The  *)
(* configurations have no more regularizers than pixels, so residuals[i]   *)
(* is inside the vector.                                                   *)
(***************************************************************************)
\* lines 193-200: the loop over pixel_index, which reads and writes
\* residuals[i], i the index of the regularizer
RECURSIVE ScaleResiduals(_, _, _, _, _, _)
ScaleResiduals(residuals, sum, pixel_index, i, regularization_parameter, weights) ==
    IF pixel_index > GetNumPixels
    THEN [residuals |-> residuals, residual_sum |-> sum]
    ELSE LET weight == RSqrt(weights[pixel_index])
             residual == RMul(RMul(regularization_parameter, weight), residuals[i])
         IN  ScaleResiduals([residuals EXCEPT ![i] = residual],
                            RAdd(sum, RSquare(residual)),
                            pixel_index + 1, i, regularization_parameter, weights)

\* lines 203-220: 2 * lambda * w * residual per pixel
PartialConstTerms(regularization_parameter, weights, residuals) ==
    HrVector([pixel_index \in Pixels |->
        RMul(RMul(RMul(Two, regularization_parameter), weights[pixel_index]),
             residuals[pixel_index])])

\* lines 187-227: one pass per regularizer
RECURSIVE RegularizerLoop(_, _, _, _)
RegularizerLoop(i, acc, estimated_image_data, weights) ==
    IF i > Len(regularizers_) THEN acc
    ELSE
    LET regularization_parameter == regularizers_[i].second
        scaled == ScaleResiduals(
                      RegularizerApplyToImage(regularizers_[i].first, estimated_image_data),
                      acc.first, 1, i, regularization_parameter, weights)
        partial_const_terms ==
            PartialConstTerms(regularization_parameter, weights, scaled.residuals)
        partial_derivatives ==
            RegularizerGetDerivatives(regularizers_[i].first, estimated_image_data,
                                      partial_const_terms)
    IN  RegularizerLoop(i + 1,
            [acc EXCEPT !.first = scaled.residual_sum,
                        !.second = HrVector([pixel_index \in Pixels |->
                            RAdd(acc.second[pixel_index], partial_derivatives[pixel_index])]),
                        !.coeffs = Append(acc.coeffs, partial_const_terms),
                        !.collab = acc.collab + 2],
            estimated_image_data, weights)

ComputeRegularizationAnalyticalDiff(estimated_image_data, weights) ==
    IF estimated_image_data = NULL THEN CheckFailed(weights)
    ELSE IF Len(regularizers_) > 0 /\ Len(weights) < GetNumPixels
    THEN \* irls_weights_.at(pixel_index) throws std::out_of_range
         [outcome |-> "out_of_range", first |-> NONE, second |-> NONE,
          coeffs |-> <<>>, collab |-> 1, irls_weights |-> weights]
    ELSE RegularizerLoop(1,
            [outcome |-> "returned", first |-> Zero, second |-> ZeroVector,
             coeffs |-> <<>>, collab |-> 0, irls_weights |-> weights],
            estimated_image_data, weights)

(***************************************************************************)
(* The weight update and the callbacks handed to the Minimizer.            *)
(***************************************************************************)
\* the floor of the residual magnitude in the weight update
Epsilon == Rat(1, 4)

\* IrlsMapSolver::UpdateIrlsWeights: weight = 1 / max(|residual|, epsilon),
\* the residual being the first regularizer's
UpdateIrlsWeights(estimated_image_data) ==
    LET residuals == RegularizerApplyToImage(regularizers_[1].first, estimated_image_data)
    IN  HrVector([p \in Pixels |-> RInv(RMax(RAbs(residuals[p]), Epsilon))])

\* lines 40-48 / 32-40: the loop over the images
RECURSIVE DataTermLoop(_, _, _, _)
DataTermLoop(image_index, acc, estimated_data, weights) ==
    IF image_index > GetNumImages THEN acc
    ELSE LET residual_sum_and_gradient ==
                 ComputeDataTermAnalyticalDiff(image_index, 0, estimated_data, weights)
         IN  DataTermLoop(image_index + 1,
                 [acc EXCEPT !.residual_sum =
                                 RAdd(acc.residual_sum, residual_sum_and_gradient.first),
                             !.gradient = HrVector([i \in Pixels |->
                                 RAdd(acc.gradient[i], residual_sum_and_gradient.second[i])]),
                             !.irls_weights = residual_sum_and_gradient.irls_weights],
                 estimated_data, weights)

\* the rest of the objective callback, from the buffers as they are
Accumulate(estimated_data, buffers) ==
    LET data == DataTermLoop(1, buffers, estimated_data, buffers.irls_weights)
        residual_sum_and_gradient ==
            ComputeRegularizationAnalyticalDiff(estimated_data, data.irls_weights)
    IN  [data EXCEPT !.residual_sum =
                         RAdd(data.residual_sum, residual_sum_and_gradient.first),
                     !.gradient = HrVector([i \in Pixels |->
                         RAdd(data.gradient[i], residual_sum_and_gradient.second[i])]),
                     !.irls_weights = residual_sum_and_gradient.irls_weights]

\* mutants of the objective callback: the buffers are not zeroed; the
\* callback refreshes the weights itself
ObjectiveWithoutReset(estimated_data, buf_residual_sum, buf_gradient, weights) ==
    Accumulate(estimated_data,
               [estimated_data |-> estimated_data, residual_sum |-> buf_residual_sum,
                gradient |-> buf_gradient, irls_weights |-> weights])

ObjectiveRefreshingWeights(estimated_data, buf_residual_sum, buf_gradient, weights) ==
    [Accumulate(estimated_data,
                [estimated_data |-> estimated_data, residual_sum |-> Zero,
                 gradient |-> ZeroVector, irls_weights |-> weights])
       EXCEPT !.irls_weights = UpdateIrlsWeights(estimated_data)]

\* irls_map_solver.cpp: the objective callback Solve() in that file binds
AlglibObjectiveFunctionAnalyticalDiff(estimated_data, buf_residual_sum, buf_gradient, weights) ==
    Accumulate(estimated_data,
               [estimated_data |-> estimated_data,
                residual_sum |-> Zero,
                gradient |-> Vector([i \in DOMAIN buf_gradient |->
                                 IF i \in Pixels THEN Zero ELSE buf_gradient[i]], Len(buf_gradient)),
                irls_weights |-> weights])

\* alglib_irls_objective.cpp: the same callback in its own file, over
\* ComputeDataTerm and ComputeRegularization
AlglibObjectiveFunction(estimated_data, buf_residual_sum, buf_gradient, weights) ==
    Accumulate(estimated_data,
               [estimated_data |-> estimated_data,
                residual_sum |-> Zero,
                gradient |-> Vector([i \in DOMAIN buf_gradient |->
                                 IF i \in Pixels THEN Zero ELSE buf_gradient[i]], Len(buf_gradient)),
                irls_weights |-> weights])

\* irls_map_solver.cpp: the iteration callback, which only logs
AlglibSolverIterationCallbackStub(estimated_data, cost, weights) == weights

\* alglib_irls_objective.cpp: the iteration callback, which updates the weights
AlglibSolverIterationCallback(estimated_data, cost, weights) ==
    UpdateIrlsWeights(estimated_data)

\* the two builds: the callbacks of irls_map_solver.cpp, or those of
\* alglib_irls_objective.cpp
SolverFile == "irls_map_solver.cpp"
ObjectiveFile == "alglib_irls_objective.cpp"
Builds == {SolverFile, ObjectiveFile}

ObjectiveCallback(estimated_data, buf_residual_sum, buf_gradient, weights) ==
    IF build = SolverFile
    THEN AlglibObjectiveFunctionAnalyticalDiff(estimated_data, buf_residual_sum,
                                               buf_gradient, weights)
    ELSE AlglibObjectiveFunction(estimated_data, buf_residual_sum, buf_gradient, weights)

IterationCallback(estimated_data, cost, weights) ==
    IF build = SolverFile
    THEN AlglibSolverIterationCallbackStub(estimated_data, cost, weights)
    ELSE AlglibSolverIterationCallback(estimated_data, cost, weights)

(***************************************************************************)
(* IrlsMapSolver::Solve and the Minimizer's loop (alglib::mincgoptimize).  *)
(***************************************************************************)
\* the estimates the Minimizer tries and reports
Estimates ==
    { <<Int2R(0), Int2R(0), Int2R(0), Int2R(0)>>,
      <<Int2R(9), Int2R(9), Int2R(9), Int2R(9)>>,
      <<Int2R(9), Int2R(0), Int2R(0), Int2R(9)>>,
      <<Int2R(0), Int2R(9), Int2R(9), Int2R(9)>> }

\* what a freshly created solver state's buffers may hold
Garbage == {Int2R(0), Int2R(7)}

\* std::vector::resize: kept entries, new entries 0.0
Resize(weights, n) == Vector([p \in 1..n |-> IF p <= Len(weights) THEN weights[p] ELSE Zero], n)
\* std::fill
Fill(weights, value) == Vector([p \in 1..Len(weights) |-> value], Len(weights))

\* the mutant of the initialization: resized, not filled
InitializeWithoutFill(weights) == Resize(weights, GetNumPixels)

\* lines 74-76: initialize IRLS weights to 1
InitializeIrlsWeights(weights) == Fill(Resize(weights, GetNumPixels), One)

NoCall == [fn |-> "none"]
\* no earlier evaluation is tracked
NoEvaluation ==
    [valid |-> FALSE, at |-> 0, estimated_data |-> NONE, residual_sum |-> NONE,
     gradient |-> NONE]

Solve(initial_estimate) ==
    /\ pc = "idle"
    /\ num_solves < MaxSolves
    /\ irls_weights_' = InitializeIrlsWeights(irls_weights_)
    /\ weights_at_entry' = irls_weights_
    /\ solver_data' = initial_estimate
    /\ \E g \in Garbage :
          /\ residual_sum' = g
          /\ gradient' = HrVector([p \in Pixels |-> g])
    /\ pc' = "optimizing"
    /\ op' = "solve"
    /\ callbacks' = 0
    /\ reported' = FALSE
    /\ num_solves' = num_solves + 1
    /\ tracked' = NoEvaluation
    /\ ret' = NoCall
    /\ UNCHANGED <<build, regularizers_, objective_vars>>

\* the Minimizer evaluates the objective and the gradient at a trial point
Evaluate(trial) ==
    /\ pc = "optimizing"
    /\ callbacks < MaxCallbacks
    /\ LET r == ObjectiveCallback(trial, residual_sum, gradient, irls_weights_)
       IN  /\ solver_data' = r.estimated_data
           /\ residual_sum' = r.residual_sum
           /\ gradient' = r.gradient
           /\ irls_weights_' = r.irls_weights
           /\ tracked' \in {tracked,
                            [valid |-> TRUE, at |-> callbacks + 1,
                             estimated_data |-> trial,
                             residual_sum |-> r.residual_sum, gradient |-> r.gradient]}
    /\ op' = "evaluate"
    /\ callbacks' = callbacks + 1
    /\ UNCHANGED <<build, regularizers_, pc, reported, num_solves, weights_at_entry,
                   ret, objective_vars>>

\* the Minimizer reports an accepted step (mincgsetxrep(solver_state, true))
Report(accepted) ==
    /\ pc = "optimizing"
    /\ callbacks >= 1
    /\ callbacks < MaxCallbacks
    /\ irls_weights_' = IterationCallback(accepted, residual_sum, irls_weights_)
    /\ solver_data' = accepted
    /\ op' = "report"
    /\ reported' = TRUE
    /\ callbacks' = callbacks + 1
    /\ tracked' = NoEvaluation
    /\ UNCHANGED <<build, regularizers_, pc, residual_sum, gradient, num_solves,
                   weights_at_entry, ret, objective_vars>>

\* lines 119-122: mincgresults, and the estimate is returned
Return ==
    /\ pc = "optimizing"
    /\ callbacks >= 1
    /\ pc' = "idle"
    /\ op' = "return"
    /\ residual_sum' = NONE
    /\ gradient' = NONE
    /\ tracked' = NoEvaluation
    /\ UNCHANGED <<build, regularizers_, irls_weights_, solver_data, callbacks, reported,
                   num_solves, weights_at_entry, ret, objective_vars>>

(***************************************************************************)
(* Direct calls of the two term evaluations (they are public), with an     *)
(* estimate or with a null pointer.  Both are const member functions, so   *)
(* one call between two solves reaches every outcome a call can have.      *)
(***************************************************************************)
Called(fn, image_index, estimated_image_data, r) ==
    /\ ret' = [fn |-> fn, image_index |-> image_index,
               estimated_image_data |-> estimated_image_data,
               weights_before |-> irls_weights_,
               outcome |-> r.outcome, first |-> r.first, second |-> r.second,
               coeffs |-> r.coeffs, collab |-> r.collab]
    /\ irls_weights_' = r.irls_weights
    /\ pc' = IF r.outcome = "returned" THEN "idle" ELSE "aborted"
    /\ UNCHANGED <<build, regularizers_, solver_data, residual_sum, gradient, callbacks,
                   reported, num_solves, weights_at_entry, tracked, objective_vars>>

CallComputeDataTerm(image_index, estimated_image_data) ==
    /\ pc = "idle"
    /\ ret = NoCall
    /\ op' = "data_term"
    /\ Called("data_term", image_index, estimated_image_data,
              ComputeDataTermAnalyticalDiff(image_index, 0, estimated_image_data,
                                            irls_weights_))

CallComputeRegularization(estimated_image_data) ==
    /\ pc = "idle"
    /\ ret = NoCall
    /\ op' = "regularization"
    /\ Called("regularization", 0, estimated_image_data,
              ComputeRegularizationAnalyticalDiff(estimated_image_data, irls_weights_))

(***************************************************************************)
(* ObjectiveFunction (objective_function.h).                               *)
(***************************************************************************)
\* the objective terms there are to add; term t costs t at every estimate
ObjectiveTerms == {1, 2}
TermCompute(t, estimated_image_data) == t

\* the mutant of AddTerm: it also counts an iteration
AddTermCounting(objective_term) ==
    /\ Len(terms_) < MaxTerms
    /\ terms_' = Append(terms_, objective_term)
    /\ num_iterations_completed_' = num_iterations_completed_ + 1
    /\ UNCHANGED <<report_calls, last_cost, solver_vars>>

\* lines 37-39
AddTerm(objective_term) ==
    /\ Len(terms_) < MaxTerms
    /\ terms_' = Append(terms_, objective_term)
    /\ UNCHANGED <<num_iterations_completed_, report_calls, last_cost, solver_vars>>

RECURSIVE SumTerms(_, _)
SumTerms(terms, estimated_image_data) ==
    IF terms = <<>> THEN 0
    ELSE TermCompute(Head(terms), estimated_image_data)
         + SumTerms(Tail(terms), estimated_image_data)

\* ComputeAllTerms (declared on lines 43-44, a const member function): the
\* sum of the terms' costs
ComputeAllTerms(estimated_image_data) ==
    /\ last_cost' = SumTerms(terms_, estimated_image_data)
    /\ UNCHANGED <<terms_, num_iterations_completed_, report_calls, solver_vars>>

\* ReportIterationComplete (declared on line 52): one more iteration was
\* completed
ReportIterationComplete(cost) ==
    /\ report_calls < MaxReportCalls
    /\ num_iterations_completed_' = num_iterations_completed_ + 1
    /\ report_calls' = report_calls + 1
    /\ UNCHANGED <<terms_, last_cost, solver_vars>>

\* lines 57-59
GetNumCompletedIterations == num_iterations_completed_

(***************************************************************************)
(* Specifications.                                                         *)
(***************************************************************************)
\* lines 32-34: the constructor of ObjectiveFunction
ObjectiveInit ==
    /\ terms_ = <<>>
    /\ num_iterations_completed_ = 0
    /\ report_calls = 0
    /\ last_cost = 0

\* a solver after construction: no weights yet, no solve under way
SolverInit ==
    /\ build \in Builds
    /\ regularizers_ \in RegularizerConfigs
    /\ irls_weights_ = <<>>
    /\ pc = "idle"
    /\ solver_data = NONE
    /\ residual_sum = NONE
    /\ gradient = NONE
    /\ op = "construct"
    /\ callbacks = 0
    /\ reported = FALSE
    /\ num_solves = 0
    /\ weights_at_entry = <<>>
    /\ tracked = NoEvaluation
    /\ ret = NoCall

Init == SolverInit /\ ObjectiveInit

Next ==
    \/ \E initial_estimate \in Estimates : Solve(initial_estimate)
    \/ \E trial \in Estimates : Evaluate(trial)
    \/ \E accepted \in Estimates : Report(accepted)
    \/ Return
    \/ \E image_index \in 1..GetNumImages, estimated_image_data \in Estimates \cup {NULL} :
          CallComputeDataTerm(image_index, estimated_image_data)
    \/ \E estimated_image_data \in Estimates \cup {NULL} :
          CallComputeRegularization(estimated_image_data)

Spec == Init /\ [][Next]_vars

ObjectiveNext ==
    \/ \E objective_term \in ObjectiveTerms : AddTerm(objective_term)
    \/ \E estimated_image_data \in Estimates : ComputeAllTerms(estimated_image_data)
    \/ \E cost \in 0..1 : ReportIterationComplete(cost)

SpecObjective == Init /\ [][ObjectiveNext]_vars

(***************************************************************************)
(* Properties.                                                             *)
(***************************************************************************)
AllOnes == Vector([p \in Pixels |-> One], GetNumPixels)

\* every weight the model reaches has an exact square root
SqrtIsExact == \A p \in 1..Len(irls_weights_) : IsSquare(irls_weights_[p])

\* C1: when an iteration report has just been made during a solve, the
\* weight table is the one UpdateIrlsWeights derives from the reported
\* estimate.
C1_ReportRefreshesWeights ==
    (pc = "optimizing" /\ op = "report")
        => irls_weights_ = UpdateIrlsWeights(solver_data)

\* C2: from the start of a solve until its first iteration report, the
\* weight table has num_pixels entries and each of them is 1.0, whatever the
\* table held when Solve was called.
C2_WeightsAreOneBeforeFirstReport ==
    (pc = "optimizing" /\ ~reported)
        => /\ Len(irls_weights_) = GetNumPixels
           /\ \A p \in Pixels : irls_weights_[p] = One

\* an evaluation before the first report of a second solve, whose Solve found
\* the weights a previous solve had changed
C2_Witness ==
    /\ pc = "optimizing"
    /\ ~reported
    /\ op = "evaluate"
    /\ num_solves >= 2
    /\ Len(weights_at_entry) = GetNumPixels
    /\ weights_at_entry # AllOnes

\* C3: during a solve every weight is at least the epsilon floor.
C3_WeightsAtLeastEpsilon ==
    pc = "optimizing"
        => \A p \in 1..Len(irls_weights_) : RLeq(Epsilon, irls_weights_[p])

\* the regularization cost the specification describes:
\* sum over k and p of lambda_k^2 * weight[p] * r_k[p]^2
ExpectedRegularizationCost(estimate, weights) ==
    SumTo([k \in 1..Len(regularizers_) |->
              LET r == RegularizerApplyToImage(regularizers_[k].first, estimate)
              IN  SumTo([p \in Pixels |->
                            RMul(RMul(RSquare(regularizers_[k].second), weights[p]),
                                 RSquare(r[p]))],
                        GetNumPixels)],
          Len(regularizers_))

\* C4: the regularization term returns the cost
\* sum over k and p of lambda_k^2 * weight[p] * r_k[p]^2.
C4_RegularizationCost ==
    (ret.fn = "regularization" /\ ret.outcome = "returned")
        => ret.first = ExpectedRegularizationCost(ret.estimated_image_data,
                                                  ret.weights_before)

\* the upstream coefficients the specification describes for regularizer k:
\* 2 * lambda_k * weight[p] * (lambda_k * sqrt(weight[p]) * r_k[p])
ExpectedCoefficients(k, estimate, weights) ==
    LET r == RegularizerApplyToImage(regularizers_[k].first, estimate)
        lambda == regularizers_[k].second
    IN  HrVector([p \in Pixels |->
            RMul(RMul(RMul(Two, lambda), weights[p]),
                 RMul(RMul(lambda, RSqrt(weights[p])), r[p]))])

\* C5: the coefficient the regularization term passes to GetDerivatives at
\* pixel p is 2 * lambda_k * weight[p] * s_k[p], s_k[p] the scaled residual
\* of pixel p; there are num_pixels coefficients per regularizer, and the
\* gradient is the sum of what GetDerivatives returns.
C5_UpstreamCoefficients ==
    (ret.fn = "regularization" /\ ret.outcome = "returned")
        => /\ Len(ret.coeffs) = Len(regularizers_)
           /\ \A k \in 1..Len(regularizers_) :
                 /\ Len(ret.coeffs[k]) = GetNumPixels
                 /\ ret.coeffs[k] = ExpectedCoefficients(k, ret.estimated_image_data,
                                                         ret.weights_before)
           /\ \A p \in Pixels :
                 ret.second[p] =
                     SumTo([k \in 1..Len(regularizers_) |->
                               RegularizerGetDerivatives(regularizers_[k].first,
                                   ret.estimated_image_data, ret.coeffs[k])[p]],
                           Len(regularizers_))

\* the residual of the downsampled estimate against observation i, per
\* low-resolution pixel
LrResidual(image_index, estimate) ==
    LrVector([q \in LrPixels |->
        RSub(ApplyToImage(estimate, image_index)[q], LrObservations[image_index][q])])

\* C6: the data term of frame i returns the squared difference between the
\* downsampled estimate and the observation as cost, and 2 * ApplyTranspose
\* of that residual as gradient.
C6_DataTermCost ==
    (ret.fn = "data_term" /\ ret.outcome = "returned")
        => LET r == LrResidual(ret.image_index, ret.estimated_image_data)
           IN  /\ ret.first = SumTo([q \in LrPixels |-> RSquare(r[q])],
                                    LrWidth * LrHeight)
               /\ \A p \in Pixels :
                     ret.second[p] =
                         RMul(Two, ApplyTransposeToImage(r, ret.image_index)[p])

\* C7: the completed-iteration counter equals the number of
\* ReportIterationComplete calls made so far, whatever AddTerm and
\* ComputeAllTerms calls were made in between.
C7_CounterCountsReports == GetNumCompletedIterations = report_calls

\* reports counted after terms were added and evaluated
C7_Witness ==
    /\ report_calls >= 2
    /\ Len(terms_) >= 2
    /\ last_cost > 0
    /\ GetNumCompletedIterations = 2

\* C8: a term evaluation called with a null estimate ends in a fatal error
\* before any collaborator is invoked; nothing is returned and the weight
\* table is as it was.
C8_NullEstimateIsFatal ==
    (ret.fn \in {"data_term", "regularization"} /\ ret.estimated_image_data = NULL)
        => /\ ret.outcome = "check_failed"
           /\ pc = "aborted"
           /\ ret.collab = 0
           /\ ret.first = NONE
           /\ ret.second = NONE
           /\ irls_weights_ = ret.weights_before

\* the data term was called with a null estimate on a solver that has solved
C8_Witness ==
    /\ ret.fn = "data_term"
    /\ ret.estimated_image_data = NULL
    /\ pc = "aborted"
    /\ Len(irls_weights_) = GetNumPixels

\* the sum of the terms at an estimate, term by term
ExpectedObjective(estimate, weights) ==
    LET data == [i \in 1..GetNumImages |->
                    ComputeDataTermAnalyticalDiff(i, 0, estimate, weights)]
        regularization == ComputeRegularizationAnalyticalDiff(estimate, weights)
    IN  [residual_sum |->
             RAdd(SumTo([i \in 1..GetNumImages |-> data[i].first], GetNumImages),
                  regularization.first),
         gradient |->
             HrVector([p \in Pixels |->
                 RAdd(SumTo([i \in 1..GetNumImages |-> data[i].second[p]], GetNumImages),
                      regularization.second[p])])]

\* C9: after an evaluation the cost buffer holds the sum of the data-term
\* costs of all images plus the regularization cost, and the gradient buffer
\* the sum of their gradients, whatever the buffers held before.
C9_ObjectiveIsSumOfTerms ==
    (pc = "optimizing" /\ op = "evaluate")
        => /\ residual_sum = ExpectedObjective(solver_data, irls_weights_).residual_sum
           /\ gradient = ExpectedObjective(solver_data, irls_weights_).gradient

\* an evaluation made after an earlier one, at another estimate, had left a
\* non-zero cost in the buffer
C9_Witness ==
    /\ pc = "optimizing"
    /\ op = "evaluate"
    /\ tracked.valid
    /\ tracked.at < callbacks
    /\ tracked.estimated_data # solver_data
    /\ tracked.residual_sum # Zero
    /\ residual_sum # Zero
    /\ residual_sum # tracked.residual_sum

\* C10: an evaluation leaves the weight table and its estimate as they were;
\* during a solve the table changes only in Solve's initialization and in an
\* iteration report and keeps num_pixels entries; an evaluation at the
\* estimate of an earlier evaluation, no report between them, returns the
\* same cost and gradient.
C10_EvaluationReadsOnly ==
    [][ /\ (pc = "optimizing" /\ op' = "evaluate" /\ callbacks' = callbacks + 1)
            => /\ irls_weights_' = irls_weights_
               /\ tracked' # tracked => tracked'.estimated_data = solver_data'
               /\ (tracked.valid /\ tracked.estimated_data = solver_data')
                      => /\ residual_sum' = tracked.residual_sum
                         /\ gradient' = tracked.gradient
        /\ (pc' = "optimizing" /\ irls_weights_' # irls_weights_)
            => op' \in {"solve", "report"}
        /\ pc' = "optimizing" => Len(irls_weights_') = GetNumPixels
      ]_vars

\* a second evaluation at the estimate of an earlier one
C10_Witness ==
    /\ pc = "optimizing"
    /\ op = "evaluate"
    /\ tracked.valid
    /\ tracked.at < callbacks
    /\ tracked.estimated_data = solver_data
    /\ residual_sum # Zero

=============================================================================
